---- MODULE Spec2Model ----
(***************************************************************************)
(* A model of the MSL (Message Security Layer) JavaScript core:            *)
(*   - keyx/KeyExchangeScheme.js   the key exchange scheme registry        *)
(*   - msg/MessageCapabilities.js  capability sets, intersection, parse    *)
(*   - EccCryptoContext            the sign-only ECC crypto context        *)
(*   - JsonMslArray                the MslArray encoded as JSON            *)
(*   - mslcli/client CmdArguments  the command line of the CLI client      *)
(* Every subsystem has its own specification over the shared variables:    *)
(* SpecKx, SpecCaps, SpecEcc, SpecJson, SpecMc and SpecCmd.                *)
(***************************************************************************)
EXTENDS Integers, Sequences, FiniteSets, TLC

VARIABLES
    schemes,    \* KeyExchangeScheme.js: own properties of the `schemes` map (name -> object id, 0 = no own property)
    nextId,     \* identity the next constructed KeyExchangeScheme object gets
    lookup,     \* the last KeyExchangeScheme$getScheme call: its argument and what it returned
    mcGlobals,  \* the globals MessageCapabilities.js left defined when it was loaded
    call,       \* the last MessageCapabilities call: operation, arguments, locals and outcome
    eccPc,      \* EccCryptoContext: position of the invocation in flight
    eccOp,      \* the operation invoked
    eccData,    \* its data argument
    eccFormat,  \* the encoder format the caller asked for
    eccPath,    \* how the invocation went: the branch its completion took
    eccSig,     \* what the signing primitive resolved with
    eccEnv,     \* the signature envelope created from it
    cbResult,   \* values delivered to callback.result, in order
    cbError,    \* errors delivered to callback.error, in order
    jaPc,       \* JsonMslArray: "new" before the constructor ran, then "constructed" or "failed"
    jaList,     \* the elements the array holds (MslArray's list)
    jaCall,     \* the last JsonMslArray call: operation, arguments and outcome
    heap,       \* MessageCapabilities objects: the arrays alive, by identity (position)
    objs,       \* the caller's variables mc: the object constructed (the identities of its three
                \* arrays), or undefined when the constructor call threw
    atInit,     \* for each object, the element sequences its lists held when init returned
    mcCall,     \* the last thing the caller did with an object or with one of the arrays
    cmdPc,      \* CmdArguments: "new" before the constructor ran, then "constructed" or "failed"
    argMap,     \* CmdArguments.argMap: option -> value
    cmdAtInit,  \* argMap as the constructor left it
    cmdMerges,  \* how many merge calls were made
    cmdCall     \* the last CmdArguments call: operation, argument and outcome

kxVars   == <<schemes, nextId, lookup>>
capsVars == <<call>>
eccVars  == <<eccPc, eccOp, eccData, eccFormat, eccPath, eccSig, eccEnv, cbResult, cbError>>
jsonVars == <<jaPc, jaList, jaCall>>
mcVars   == <<heap, objs, atInit, mcCall>>
loadVars == <<mcGlobals>>
vars     == <<schemes, nextId, lookup, mcGlobals, call,
              eccPc, eccOp, eccData, eccFormat, eccPath, eccSig, eccEnv, cbResult, cbError,
              jaPc, jaList, jaCall, heap, objs, atInit, mcCall,
              cmdPc, argMap, cmdAtInit, cmdMerges, cmdCall>>
cmdVars    == <<cmdPc, argMap, cmdAtInit, cmdMerges, cmdCall>>
exceptKx   == <<loadVars, capsVars, eccVars, jsonVars, mcVars, cmdVars>>
exceptCaps == <<loadVars, kxVars, eccVars, jsonVars, mcVars, cmdVars>>
exceptEcc  == <<loadVars, kxVars, capsVars, jsonVars, mcVars, cmdVars>>
exceptJson == <<loadVars, kxVars, capsVars, eccVars, mcVars, cmdVars>>
exceptMc   == <<loadVars, kxVars, capsVars, eccVars, jsonVars, cmdVars>>
exceptCmd  == <<loadVars, kxVars, capsVars, eccVars, jsonVars, mcVars>>

(***************************************************************************)
(* JavaScript plain objects.  An object literal {} inherits the properties *)
(* of Object.prototype, so a lookup obj[name] of a name that is no own     *)
(* property still yields a (truthy) value when Object.prototype has it.    *)
(***************************************************************************)
ObjectPrototypeNames ==
    {"constructor", "toString", "toLocaleString", "valueOf", "hasOwnProperty",
     "isPrototypeOf", "propertyIsEnumerable", "__proto__",
     "__defineGetter__", "__defineSetter__", "__lookupGetter__", "__lookupSetter__"}

\* A string universe in the order of Array.prototype.sort (UTF-16 code units:
\* upper case before '_' before lower case).
CodeUnitOrder ==
    <<"ASYMMETRIC_WRAPPED", "BINARY", "DIFFIE_HELLMAN", "FOO", "GZIP", "JSON", "JWE_LADDER",
      "JWK_LADDER", "LZW", "SYMMETRIC_WRAPPED", "XML", "XYZ",
      "__proto__", "constructor", "de", "en", "fr", "toString", "valueOf">>

rank(s) == CHOOSE i \in 1..Len(CodeUnitOrder) : CodeUnitOrder[i] = s

(***************************************************************************)
(* keyx/KeyExchangeScheme.js                                               *)
(***************************************************************************)
RegisteredNames ==
    {"ASYMMETRIC_WRAPPED", "DIFFIE_HELLMAN", "JWE_LADDER", "JWK_LADDER", "SYMMETRIC_WRAPPED"}

\* Names callers pass besides the registered ones.
OtherNames == {"FOO", "constructor", "toString"}
Names == RegisteredNames \cup OtherNames

\* How many KeyExchangeScheme objects callers construct after initialization.
MaxConstructed == 2

\* JavaScript values a lookup yields.
null == [kind |-> "null", id |-> 0, name |-> ""]
SchemeObject(i, n) == [kind |-> "KeyExchangeScheme", id |-> i, name |-> n]
Inherited(n) == [kind |-> "Object.prototype", id |-> 0, name |-> n]

\* The frozen statics KeyExchangeScheme.ASYMMETRIC_WRAPPED, ...: the five
\* objects the mixin constructs, in the order of the object literal.
StaticId(n) ==
    CASE n = "ASYMMETRIC_WRAPPED" -> 1
      [] n = "DIFFIE_HELLMAN"     -> 2
      [] n = "JWE_LADDER"         -> 3
      [] n = "JWK_LADDER"         -> 4
      [] n = "SYMMETRIC_WRAPPED"  -> 5
Static(n) == SchemeObject(StaticId(n), n)

\* `schemes` once the module is loaded: one own property per mixin entry.
InitSchemes == [n \in Names |-> IF n \in RegisteredNames THEN StaticId(n) ELSE 0]

\* schemes[name]: the own property, else what Object.prototype has.  An object
\* is filed under its own name (`schemes[name] = this`, name not writable), so
\* the object found under `name` carries that name.
Get(map, name) ==
    IF map[name] # 0 THEN SchemeObject(map[name], name)
    ELSE IF name \in ObjectPrototypeNames THEN Inherited(name)
    ELSE null

\* return (schemes[name]) ? schemes[name] : null;   objects and functions are truthy
KeyExchangeScheme_getScheme(map, name) ==
    IF Get(map, name) # null THEN Get(map, name) ELSE null

\* new KeyExchangeScheme(name): schemes[name] = this
KeyExchangeScheme(map, id, name) == [map EXCEPT ![name] = id]

KxInit ==
    /\ schemes = InitSchemes
    /\ nextId = 6
    /\ lookup = [name |-> "", value |-> null]

GetScheme(name) ==
    /\ lookup' = [name |-> name, value |-> KeyExchangeScheme_getScheme(schemes, name)]
    /\ UNCHANGED <<schemes, nextId>>

Construct(name) ==
    /\ nextId < 6 + MaxConstructed
    /\ schemes' = KeyExchangeScheme(schemes, nextId, name)
    /\ nextId' = nextId + 1
    /\ UNCHANGED lookup

KxNext ==
    \/ \E name \in Names : GetScheme(name) /\ UNCHANGED exceptKx
    \/ \E name \in Names : Construct(name) /\ UNCHANGED exceptKx

(***************************************************************************)
(* msg/MessageCapabilities.js                                              *)
(***************************************************************************)
KEY_COMPRESSION_ALGOS == "compressionalgos"
KEY_LANGUAGES == "languages"
KEY_ENCODER_FORMATS == "encoderformats"

\* enum(GZIP|LZW): the own properties of MslConstants$CompressionAlgorithm.
CompressionAlgorithmNames == {"GZIP", "LZW"}
\* The encoder formats MslEncoderFormat.getFormat knows by name: a text-based
\* and a binary-based one.
EncoderFormatNames == {"JSON", "BINARY"}

\* Longest languages list of a capability set handed to intersection.
MaxLangs == 2
\* Longest compression-algorithm and encoder-format list of a parsed object.
MaxParsed == 2

Languages == {"de", "en", "fr"}
RECURSIVE SeqsUpTo(_, _)
SeqsUpTo(S, n) ==
    IF n = 0 THEN {<<>>}
    ELSE LET shorter == SeqsUpTo(S, n - 1)
         IN shorter \cup {Append(s, x) : s \in {t \in shorter : Len(t) = n - 1}, x \in S}

\* Array.prototype.sort() with the default comparison: by code units, stable.
RECURSIVE Insert(_, _)
Insert(sorted, x) ==
    IF sorted = <<>> THEN <<x>>
    ELSE IF rank(x) < rank(Head(sorted)) THEN <<x>> \o sorted
    ELSE <<Head(sorted)>> \o Insert(Tail(sorted), x)
RECURSIVE Sort(_)
Sort(s) == IF s = <<>> THEN <<>> ELSE Insert(Sort(SubSeq(s, 1, Len(s) - 1)), s[Len(s)])

Elems(s) == {s[i] : i \in 1..Len(s)}

\* function computeIntersection(a, b): hash[a[i]] = true for a's elements, then
\* b's elements e with hash[e] truthy, in b's order.  hash is a plain object:
\* hash[e] is also truthy for every name Object.prototype has.
hashTruthy(a, e) == e \in Elems(a) \/ e \in ObjectPrototypeNames
computeIntersection(a, b) == SelectSeq(b, LAMBDA e : hashTruthy(a, e))

\* init(compressionAlgos, languages, encoderFormats): a missing list becomes [],
\* compressionAlgos is sorted, the three lists become the properties.
MessageCapabilities(compressionAlgos, languages, encoderFormats) ==
    [kind |-> "MessageCapabilities",
     compressionAlgorithms |-> Sort(compressionAlgos),
     languages |-> languages,
     encoderFormats |-> encoderFormats]

\* The script as a whole.  The object literal it hands to MslEncodable.extend
\* lists these members, and each but the last has to be followed by a comma:
\* the one after toMslEncoding is missing.
ExtendMembers ==
    <<[name |-> "init", comma |-> TRUE], [name |-> "toMslEncoding", comma |-> FALSE],
      [name |-> "equals", comma |-> TRUE], [name |-> "uniqueKey", comma |-> TRUE]>>
ScriptParses == \A i \in 1..(Len(ExtendMembers) - 1) : ExtendMembers[i].comma
\* The globals the script's statements assign.
ScriptGlobals ==
    {"MessageCapabilities", "MessageCapabilities$intersection", "MessageCapabilities$parse"}
\* Loading the script: one that does not parse is rejected as a whole with a
\* SyntaxError, none of its statements runs and none of its globals is defined.
Load ==
    IF ScriptParses THEN [threw |-> "none", defined |-> ScriptGlobals]
    ELSE [threw |-> "SyntaxError", defined |-> {}]
LoadInit == mcGlobals = Load.defined
\* A call of a global the script left undefined.
NotDefined ==
    [threw |-> "ReferenceError", value |-> null, read |-> {},
     compressionAlgos |-> <<>>, languages |-> <<>>]

\* The functions the module's scope declares: a call of any other identifier
\* raises a ReferenceError.
ScopeFunctions == {"computeIntersection"}
CallInScope(f, a, b) ==
    IF f \in ScopeFunctions
    THEN [threw |-> "none", value |-> computeIntersection(a, b)]
    ELSE [threw |-> "ReferenceError", value |-> <<>>]

\* MessageCapabilities$intersection(mc1, mc2).  The outcome records what the
\* call threw, what it returned, whose lists it read, and the locals
\* compressionAlgos and languages it had computed.
MessageCapabilities_intersection(mc1, mc2) ==
    IF mc1 = null \/ mc2 = null
    THEN [threw |-> "none", value |-> null, read |-> {},
          compressionAlgos |-> <<>>, languages |-> <<>>]
    ELSE LET compressionAlgos == computeIntersection(mc1.compressionAlgorithms, mc2.compressionAlgorithms)
             languages == computeIntersection(mc1.languages, mc2.languages)
             encoderFormats == CallInScope("computerIntersection", mc1.encoderFormats, mc2.encoderFormats)
         IN IF encoderFormats.threw # "none"
            THEN [threw |-> encoderFormats.threw, value |-> null, read |-> {"mc1", "mc2"},
                  compressionAlgos |-> compressionAlgos, languages |-> languages]
            ELSE [threw |-> "none",
                  value |-> MessageCapabilities(compressionAlgos, languages, encoderFormats.value),
                  read |-> {"mc1", "mc2"},
                  compressionAlgos |-> compressionAlgos, languages |-> languages]

\* The arguments callers hand to intersection: objects with the three lists.
AlgoLists == {<<>>, <<"GZIP">>, <<"LZW">>, <<"LZW", "GZIP">>}
FormatLists == {<<>>, <<"JSON">>, <<"BINARY", "JSON">>}
CapabilitySets ==
    {MessageCapabilities(c, l, f) :
        c \in AlgoLists, l \in SeqsUpTo(Languages, MaxLangs), f \in FormatLists}

\* capabilitiesMo.optMslArray(key): the array under key, or null when the key
\* is missing.  An array is [present |-> TRUE, items |-> ...], null is Missing.
Missing == [present |-> FALSE, items |-> <<>>]
Array(items) == [present |-> TRUE, items |-> items]
optMslArray(mo, key) == mo[key]

\* MslConstants$CompressionAlgorithm[algo] as a condition: the enum's own
\* properties, and what the object inherits from Object.prototype.
CompressionAlgorithmTruthy(algo) ==
    algo \in CompressionAlgorithmNames \/ algo \in ObjectPrototypeNames

\* MslEncoderFormat.getFormat(name): the format of that name, or null.
MslEncoderFormat_getFormat(name) ==
    IF name \in EncoderFormatNames THEN [kind |-> "MslEncoderFormat", id |-> 0, name |-> name] ELSE null

\* MessageCapabilities$parse(capabilitiesMo)
MessageCapabilities_parse(mo) ==
    LET algos == optMslArray(mo, KEY_COMPRESSION_ALGOS)
        compressionAlgos ==
            IF algos.present THEN SelectSeq(algos.items, CompressionAlgorithmTruthy) ELSE <<>>
        langs == optMslArray(mo, KEY_LANGUAGES)
        languages == IF langs.present THEN langs.items ELSE <<>>
        formats == optMslArray(mo, KEY_ENCODER_FORMATS)
        found == IF formats.present
                 THEN [i \in 1..Len(formats.items) |-> MslEncoderFormat_getFormat(formats.items[i])]
                 ELSE <<>>
        kept == SelectSeq(found, LAMBDA f : f # null)
        encoderFormats == [i \in 1..Len(kept) |-> kept[i].name]
    IN [threw |-> "none", value |-> MessageCapabilities(compressionAlgos, languages, encoderFormats)]

\* The encoded objects a peer sends.
AlgoStrings == {"GZIP", "LZW", "XYZ", "constructor"}
FormatStrings == {"JSON", "XML"}
Optional(S) == {Missing} \cup {Array(s) : s \in S}
CapabilitiesObjects ==
    {[compressionalgos |-> a, languages |-> l, encoderformats |-> f] :
        a \in Optional(SeqsUpTo(AlgoStrings, MaxParsed)),
        l \in Optional({<<>>, <<"en">>, <<"fr", "en">>}),
        f \in Optional(SeqsUpTo(FormatStrings, MaxParsed))}

\* A call whose arguments are chosen and which has not run yet.
NoCall == [op |-> "none"]
Pending == [threw |-> "pending"]
CapsCalls(sets, objects) ==
    {[op |-> "intersection", mc1 |-> mc1, mc2 |-> mc2, out |-> Pending] :
        mc1 \in sets \cup {null}, mc2 \in sets \cup {null}}
    \cup {[op |-> "parse", mo |-> mo, out |-> Pending] : mo \in objects}

CapsIdle == call = NoCall
CapsInit == call \in CapsCalls(CapabilitySets, CapabilitiesObjects)

Intersection ==
    /\ call.op = "intersection"
    /\ call.out = Pending
    /\ call' = [call EXCEPT !.out =
                    IF "MessageCapabilities$intersection" \in mcGlobals
                    THEN MessageCapabilities_intersection(call.mc1, call.mc2)
                    ELSE NotDefined]

Parse ==
    /\ call.op = "parse"
    /\ call.out = Pending
    /\ call' = [call EXCEPT !.out =
                    IF "MessageCapabilities$parse" \in mcGlobals
                    THEN MessageCapabilities_parse(call.mo)
                    ELSE NotDefined]

CapsNext ==
    \/ Intersection /\ UNCHANGED exceptCaps
    \/ Parse /\ UNCHANGED exceptCaps

(***************************************************************************)
(* EccCryptoContext (src/unnamed/part_000)                                 *)
(***************************************************************************)
\* Longest signature the signing primitive resolves with.
MaxSigLen == 3
SigByteValues == {0, 255}
Signatures == SeqsUpTo(SigByteValues, MaxSigLen)
RejectReasons == {"InvalidAccessError", "OperationError"}
EnvelopeFailures == {"MslCryptoException", "MslEncoderException"}
Operations == {"encrypt", "decrypt", "wrap", "unwrap", "sign", "verify"}

\* JavaScript values the continuations receive.
Uint8Array(bytes) == [kind |-> "Uint8Array", bytes |-> [i \in 1..Len(bytes) |-> bytes[i] % 256]]
DataValues == {Uint8Array(<<>>), Uint8Array(<<1>>), Uint8Array(<<1, 2>>)}
MslCryptoException(error) == [kind |-> "MslCryptoException", error |-> error]
Failure(kind) == [kind |-> kind, error |-> "ENVELOPE"]
undefined == [kind |-> "undefined"]
PromiseValue == [kind |-> "Promise"]

\* What the function handed to AsyncExecutor does: returns a value, throws, or
\* returns nothing; `pending` says it left a promise whose handlers will run.
Return(v) == [kind |-> "return", value |-> v, pending |-> FALSE]
Throw(e) == [kind |-> "throw", value |-> e, pending |-> FALSE]
ReturnNothing(pending) == [kind |-> "return", value |-> undefined, pending |-> pending]

\* AsyncExecutor(callback, func, thisObj): runs func; what it throws goes to
\* callback.error, what it returns (unless undefined) to callback.result.
AsyncExecutor(out) ==
    CASE out.kind = "throw" -> [result |-> <<>>, error |-> <<out.value>>]
      [] out.kind = "return" /\ out.value # undefined -> [result |-> <<out.value>>, error |-> <<>>]
      [] OTHER -> [result |-> <<>>, error |-> <<>>]

\* The functions the six operations hand to AsyncExecutor.
encrypt(data) == Return(data)
\* A plausible slip: decrypt refuses, as the sign-only operations do.
decryptNotSupported(data) == Throw(MslCryptoException("DECRYPT_NOT_SUPPORTED"))
decrypt(data) == Return(data)
wrap(key) == Throw(MslCryptoException("WRAP_NOT_SUPPORTED"))
unwrap(data) == Throw(MslCryptoException("UNWRAP_NOT_SUPPORTED"))
\* A copy-paste slip: verify reports the error of wrap.
verifyReportsWrap(data) == Throw(MslCryptoException("WRAP_NOT_SUPPORTED"))
verify(data) == Throw(MslCryptoException("VERIFY_NOT_SUPPORTED"))
\* A plausible slip: `return mslCrypto.sign(...).then(...)`, which hands the
\* promise to callback.result before the handlers run.
signReturnsPromise(data) == [kind |-> "return", value |-> PromiseValue, pending |-> TRUE]
\* sign: mslCrypto.sign(ECDSA_SHA256, privateKey, data).then(oncomplete, onerror)
sign(data) == ReturnNothing(TRUE)

Body(op, data) ==
    CASE op = "encrypt" -> encrypt(data)
      [] op = "decrypt" -> decrypt(data)
      [] op = "wrap"    -> wrap(data)
      [] op = "unwrap"  -> unwrap(data)
      [] op = "sign"    -> sign(data)
      [] op = "verify"  -> verify(data)

\* A plausible slip: the rejection reason is passed on as it came.
onerrorPassesReason(e) == [kind |-> e, error |-> ""]
\* onerror(e): callback.error(new MslCryptoException(MslError.SIGNATURE_ERROR))
onerror(e) == MslCryptoException("SIGNATURE_ERROR")

\* oncomplete(hash): the bytes handed to MslSignatureEnvelope$create.
oncomplete(hash) == Uint8Array(hash)

\* A plausible slip: the envelope is always encoded in the default format.
getBytesFormatDefault(format) == "JSON"
\* envelope.getBytes(encoder, format, ...): the format the envelope is encoded in.
getBytesFormat(format) == format

\* result: function(bytes) { callback.result(bytes); }
getBytesResult(bytes) == bytes

(***************************************************************************)
(* The signature envelope and its encoding.  Text-based formats carry the  *)
(* signature as Base64 text, binary-based formats as the bytes themselves. *)
(* Base64 text is the sequence of its characters' alphabet indices, 64     *)
(* standing for the padding character.                                     *)
(***************************************************************************)
TextFormats == {"JSON"}

RECURSIVE base64_encode(_)
base64_encode(b) ==
    IF Len(b) = 0 THEN <<>>
    ELSE IF Len(b) = 1 THEN <<b[1] \div 4, (b[1] % 4) * 16, 64, 64>>
    ELSE IF Len(b) = 2
    THEN <<b[1] \div 4, (b[1] % 4) * 16 + b[2] \div 16, (b[2] % 16) * 4, 64>>
    ELSE <<b[1] \div 4, (b[1] % 4) * 16 + b[2] \div 16,
           (b[2] % 16) * 4 + b[3] \div 64, b[3] % 64>>
         \o base64_encode(SubSeq(b, 4, Len(b)))

RECURSIVE base64_decode(_)
base64_decode(t) ==
    IF Len(t) < 4 THEN <<>>
    ELSE LET first == t[1] * 4 + t[2] \div 16
             second == (t[2] % 16) * 16 + t[3] \div 4
             third == (t[3] % 4) * 64 + t[4]
         IN IF t[3] = 64 THEN <<first>>
            ELSE IF t[4] = 64 THEN <<first, second>>
            ELSE <<first, second, third>> \o base64_decode(SubSeq(t, 5, Len(t)))

\* MslSignatureEnvelope$create(signature): the default algorithm identifier.
MslSignatureEnvelope_create(signature) ==
    [kind |-> "MslSignatureEnvelope", algorithm |-> "default", signature |-> signature.bytes]

\* envelope.getBytes(encoder, format): the encoded object with its two keys.
MslSignatureEnvelope_getBytes(envelope, format) ==
    [kind |-> "encoding", format |-> format, algorithm |-> envelope.algorithm,
     signature |-> IF format \in TextFormats
                   THEN [text |-> TRUE, chars |-> base64_encode(envelope.signature)]
                   ELSE [text |-> FALSE, chars |-> envelope.signature]]

\* MslSignatureEnvelope$parse(bytes, format): binary as it is, text decoded.
MslSignatureEnvelope_parse(bytes, format) ==
    IF bytes.kind # "encoding" \/ bytes.format # format
    THEN [kind |-> "MslEncoderException", algorithm |-> "", signature |-> <<>>]
    ELSE [kind |-> "MslSignatureEnvelope", algorithm |-> bytes.algorithm,
          signature |-> IF bytes.signature.text THEN base64_decode(bytes.signature.chars)
                        ELSE bytes.signature.chars]

NoEnvelope == [kind |-> "none"]

EccInit ==
    /\ eccPc = "idle"
    /\ eccOp = "none"
    /\ eccData = Uint8Array(<<>>)
    /\ eccFormat = "JSON"
    /\ eccPath = "none"
    /\ eccSig = <<>>
    /\ eccEnv = NoEnvelope
    /\ cbResult = <<>>
    /\ cbError = <<>>

\* operation(data, encoder, format, callback): AsyncExecutor runs the body.
Invoke(op, data, format) ==
    /\ eccPc \in {"idle", "done"}
    /\ eccOp' = op
    /\ eccData' = data
    /\ eccFormat' = format
    /\ eccSig' = <<>>
    /\ eccEnv' = NoEnvelope
    /\ LET out == Body(op, data)
           delivered == AsyncExecutor(out)
       IN /\ cbResult' = delivered.result
          /\ cbError' = delivered.error
          /\ eccPc' = IF out.pending THEN "signing" ELSE "done"
          /\ eccPath' = IF out.pending THEN "pending"
                        ELSE IF out.kind = "throw" THEN "threw" ELSE "returned"

\* The promise of mslCrypto.sign resolves: oncomplete(hash) creates the envelope.
SignResolve(hash) ==
    /\ eccPc = "signing"
    /\ eccSig' = hash
    /\ eccPc' = "creating"
    /\ eccPath' = "resolved"
    /\ UNCHANGED <<eccOp, eccData, eccFormat, eccEnv, cbResult, cbError>>

\* The promise rejects: onerror(e).
SignReject(e) ==
    /\ eccPc = "signing"
    /\ cbError' = Append(cbError, onerror(e))
    /\ eccPc' = "done"
    /\ eccPath' = "rejected"
    /\ UNCHANGED <<eccOp, eccData, eccFormat, eccSig, eccEnv, cbResult>>

\* MslSignatureEnvelope$create delivers the envelope: envelope.getBytes is called.
CreateResult ==
    /\ eccPc = "creating"
    /\ eccEnv' = MslSignatureEnvelope_create(oncomplete(eccSig))
    /\ eccPc' = "encoding"
    /\ UNCHANGED <<eccOp, eccData, eccFormat, eccPath, eccSig, cbResult, cbError>>

\* MslSignatureEnvelope$create fails: error: callback.error
CreateError(e) ==
    /\ eccPc = "creating"
    /\ cbError' = Append(cbError, Failure(e))
    /\ eccPc' = "done"
    /\ eccPath' = "createFailed"
    /\ UNCHANGED <<eccOp, eccData, eccFormat, eccSig, eccEnv, cbResult>>

\* envelope.getBytes delivers the encoding: callback.result(bytes)
GetBytesResult ==
    /\ eccPc = "encoding"
    /\ cbResult' = Append(cbResult,
                          getBytesResult(MslSignatureEnvelope_getBytes(eccEnv, getBytesFormat(eccFormat))))
    /\ eccPc' = "done"
    /\ eccPath' = "signed"
    /\ UNCHANGED <<eccOp, eccData, eccFormat, eccSig, eccEnv, cbError>>

\* envelope.getBytes fails: error: callback.error
GetBytesError(e) ==
    /\ eccPc = "encoding"
    /\ cbError' = Append(cbError, Failure(e))
    /\ eccPc' = "done"
    /\ eccPath' = "encodeFailed"
    /\ UNCHANGED <<eccOp, eccData, eccFormat, eccSig, eccEnv, cbResult>>

EccNext ==
    \/ \E op \in Operations, data \in DataValues, format \in EncoderFormatNames :
          Invoke(op, data, format) /\ UNCHANGED exceptEcc
    \/ \E hash \in Signatures : SignResolve(hash) /\ UNCHANGED exceptEcc
    \/ \E e \in RejectReasons : SignReject(e) /\ UNCHANGED exceptEcc
    \/ CreateResult /\ UNCHANGED exceptEcc
    \/ \E e \in EnvelopeFailures : CreateError(e) /\ UNCHANGED exceptEcc
    \/ GetBytesResult /\ UNCHANGED exceptEcc
    \/ \E e \in EnvelopeFailures : GetBytesError(e) /\ UNCHANGED exceptEcc

(***************************************************************************)
(* JsonMslArray (src/unnamed/part_001)                                     *)
(***************************************************************************)
\* Longest JSON text (in tokens) handed to the constructor as encoded data.
MaxTokens == 4
\* Most elements an array is grown to by put.
MaxList == 2

\* JSON text is the sequence of its tokens: the punctuation, the number 1 and
\* the string literal "AQI=" (the Base64 text of the bytes 1, 2).
Tokens == {"[", "]", "{", "}", ",", ":", "1", "'AQI='"}

\* JavaScript values.
JsNumber == [kind |-> "number", chars |-> <<>>]
JsString == [kind |-> "string", chars |-> base64_encode(<<1, 2>>)]
JsArray(items) == [kind |-> "Array", items |-> items]
JsObject(keys, vals) == [kind |-> "Object", keys |-> keys, vals |-> vals]
Encoded(tokens) == [kind |-> "Uint8Array", text |-> tokens]
Absent == [kind |-> "undefined"]

\* An MslArray of another kind, which keeps its elements in a property ja.
MslArrayWithJa(items) == [kind |-> "MslArray", ja |-> items]

\* value instanceof Object: every object, arrays and typed arrays included.
instanceofObject(value) ==
    value.kind \in {"Object", "Array", "Uint8Array", "MslArray", "JsonMslArray", "JsonMslObject"}
\* source instanceof MslArray
instanceofMslArray(value) == value.kind \in {"MslArray", "JsonMslArray"}
\* value instanceof Array
instanceofArray(value) == value.kind = "Array"

\* An object has one member per key: a repeated key keeps its place and takes
\* the later value.
KeyIndex(keys, k) == CHOOSE i \in 1..Len(keys) : keys[i] = k
WithMember(keys, vals, k, v) ==
    IF k \in Elems(keys)
    THEN [keys |-> keys, vals |-> [vals EXCEPT ![KeyIndex(keys, k)] = v]]
    ELSE [keys |-> Append(keys, k), vals |-> Append(vals, v)]

\* JSON.parse: a recursive descent over the tokens.
ParseFail == [ok |-> FALSE, value |-> null, next |-> 0]
ParseOk(v, next) == [ok |-> TRUE, value |-> v, next |-> next]
RECURSIVE ParseValue(_, _)
RECURSIVE ParseElements(_, _, _)
RECURSIVE ParseMembers(_, _, _, _)
ParseValue(t, p) ==
    IF p > Len(t) THEN ParseFail
    ELSE CASE t[p] = "1" -> ParseOk(JsNumber, p + 1)
           [] t[p] = "'AQI='" -> ParseOk(JsString, p + 1)
           [] t[p] = "[" ->
                IF p + 1 <= Len(t) /\ t[p + 1] = "]" THEN ParseOk(JsArray(<<>>), p + 2)
                ELSE ParseElements(t, p + 1, <<>>)
           [] t[p] = "{" ->
                IF p + 1 <= Len(t) /\ t[p + 1] = "}" THEN ParseOk(JsObject(<<>>, <<>>), p + 2)
                ELSE ParseMembers(t, p + 1, <<>>, <<>>)
           [] OTHER -> ParseFail
ParseElements(t, p, acc) ==
    LET v == ParseValue(t, p)
    IN IF ~v.ok \/ v.next > Len(t) THEN ParseFail
       ELSE IF t[v.next] = "," THEN ParseElements(t, v.next + 1, Append(acc, v.value))
       ELSE IF t[v.next] = "]" THEN ParseOk(JsArray(Append(acc, v.value)), v.next + 1)
       ELSE ParseFail
ParseMembers(t, p, keys, vals) ==
    IF p + 1 > Len(t) \/ t[p] # "'AQI='" \/ t[p + 1] # ":" THEN ParseFail
    ELSE LET v == ParseValue(t, p + 2)
             m == WithMember(keys, vals, t[p], v.value)
         IN IF ~v.ok \/ v.next > Len(t) THEN ParseFail
            ELSE IF t[v.next] = "," THEN ParseMembers(t, v.next + 1, m.keys, m.vals)
            ELSE IF t[v.next] = "}" THEN ParseOk(JsObject(m.keys, m.vals), v.next + 1)
            ELSE ParseFail
JSON_parse(t) ==
    LET v == ParseValue(t, 1)
    IN IF v.ok /\ v.next = Len(t) + 1 THEN [threw |-> "none", value |-> v.value]
       ELSE [threw |-> "SyntaxError", value |-> null]

\* Number.prototype.toString for the indices and bytes of a typed array.
Digit(d) ==
    CASE d = 0 -> "0" [] d = 1 -> "1" [] d = 2 -> "2" [] d = 3 -> "3" [] d = 4 -> "4"
      [] d = 5 -> "5" [] d = 6 -> "6" [] d = 7 -> "7" [] d = 8 -> "8" [] d = 9 -> "9"
RECURSIVE Decimal(_)
Decimal(n) == IF n < 10 THEN Digit(n) ELSE Decimal(n \div 10) \o Digit(n % 10)

\* The characters of a string as JSON.stringify writes them inside a string
\* literal: every quote and every backslash gets a backslash before it.
RECURSIVE EscapeChars(_)
EscapeChars(s) ==
    IF s = "" THEN ""
    ELSE (IF Head(s) \in {"'", "\\"} THEN "\\" \o Head(s) ELSE Head(s)) \o EscapeChars(Tail(s))

\* The text of a token sequence inside a string literal.
RECURSIVE QuotedText(_)
QuotedText(tokens) ==
    IF tokens = <<>> THEN ""
    ELSE EscapeChars(Head(tokens)) \o QuotedText(Tail(tokens))

\* JSON.stringify of a value and of a list of values: null as null, an array
\* as its elements (an undefined element as null), a plain object as its
\* members (an undefined member is left out), a typed array as an object of
\* its indices.  A stored container answers with its toJSON(), a string,
\* which is written as a string literal.
RECURSIVE Stringify(_)
RECURSIVE StringifyItems(_)
RECURSIVE StringifyMembers(_, _)
RECURSIVE StringifyBytes(_, _)
Stringify(v) ==
    CASE v.kind \in {"null", "undefined"} -> <<"null">>
      [] v.kind = "number" -> <<"1">>
      [] v.kind = "string" -> <<"'AQI='">>
      [] v.kind = "Array" -> <<"[">> \o StringifyItems(v.items) \o <<"]">>
      [] v.kind = "Object" -> <<"{">> \o StringifyMembers(v.keys, v.vals) \o <<"}">>
      [] v.kind = "Uint8Array" -> <<"{">> \o StringifyBytes(v.bytes, 1) \o <<"}">>
      [] v.kind = "JsonMslArray" ->
            <<"'" \o QuotedText(<<"[">> \o StringifyItems(v.list) \o <<"]">>) \o "'">>
      [] v.kind = "JsonMslObject" -> <<"'" \o QuotedText(Stringify(v.source)) \o "'">>
StringifyItems(items) ==
    IF items = <<>> THEN <<>>
    ELSE IF Len(items) = 1 THEN Stringify(items[1])
    ELSE Stringify(items[1]) \o <<",">> \o StringifyItems(Tail(items))
StringifyMembers(keys, vals) ==
    IF keys = <<>> THEN <<>>
    ELSE LET rest == StringifyMembers(Tail(keys), Tail(vals))
         IN IF vals[1].kind = "undefined" THEN rest
            ELSE <<keys[1], ":">> \o Stringify(vals[1])
                    \o (IF rest = <<>> THEN <<>> ELSE <<",">>) \o rest
StringifyBytes(bytes, i) ==
    IF i > Len(bytes) THEN <<>>
    ELSE <<"'" \o Decimal(i - 1) \o "'", ":", Decimal(bytes[i])>>
            \o (IF i < Len(bytes) THEN <<",">> ELSE <<>>) \o StringifyBytes(bytes, i + 1)

\* textEncoding$getString(source, MslConstants$DEFAULT_CHARSET)
textEncoding_getString(source) == source.text

MaxOf(m, n) == IF m > n THEN m ELSE n
\* MslArray.put(index, value): -1 appends, an index replaces or grows the list,
\* the gap filled with null.  MslArray.get(index): the element.
MslArray_put(list, index, o) ==
    IF index = -1 THEN Append(list, o)
    ELSE [i \in 1..MaxOf(Len(list), index + 1) |->
            IF i = index + 1 THEN o ELSE IF i <= Len(list) THEN list[i] ELSE null]
MslArray_get(list, index) == list[index + 1]

\* The identifiers put can see: its parameters and locals, and the globals of
\* the library.  `encoder` is a parameter of init only.
PutScope == {"index", "value", "o", "e", "put", "JsonMslArray", "JsonMslObject",
             "MslEncoderException", "IllegalArgumentException"}

\* put(index, value) and init(encoder, source).  An outcome is what was thrown,
\* the list afterwards, and the conversion put chose for the value.
RECURSIVE JsonMslArray_put(_, _, _)
RECURSIVE JsonMslArray_init(_)
RECURSIVE PutAll(_, _)
JsonMslArray_put(list, index, value) ==
    LET branch == IF instanceofObject(value) THEN "JsonMslObject"
                  ELSE IF instanceofArray(value) THEN "JsonMslArray"
                  ELSE "as-is"
    IN IF branch = "as-is"
       THEN [threw |-> "none", list |-> MslArray_put(list, index, value), branch |-> branch]
       ELSE IF "encoder" \notin PutScope
       THEN [threw |-> "ReferenceError", list |-> list, branch |-> branch]
       ELSE IF branch = "JsonMslObject"
       THEN [threw |-> "none", branch |-> branch,
             list |-> MslArray_put(list, index, [kind |-> "JsonMslObject", source |-> value])]
       ELSE LET inner == JsonMslArray_init(value)
            IN IF inner.threw = "MslEncoderException"
               THEN [threw |-> "IllegalArgumentException", list |-> list, branch |-> branch]
               ELSE IF inner.threw # "none"
               THEN [threw |-> inner.threw, list |-> list, branch |-> branch]
               ELSE [threw |-> "none", branch |-> branch,
                     list |-> MslArray_put(list, index,
                                           [kind |-> "JsonMslArray", list |-> inner.list])]

\* for (var i = 0; i < ja.length; ++i) this.put(-1, ja[i]);
PutAll(list, ja) ==
    IF ja = <<>> THEN [threw |-> "none", list |-> list]
    ELSE LET first == JsonMslArray_put(list, -1, Head(ja))
         IN IF first.threw = "TypeError" THEN [threw |-> "MslEncoderException", list |-> list]
            ELSE IF first.threw # "none" THEN [threw |-> first.threw, list |-> list]
            ELSE PutAll(first.list, Tail(ja))

\* A plausible slip: whatever JSON.parse returns is taken for the array.
initNoArrayCheck(source) ==
    IF source.kind = "Array" THEN PutAll(<<>>, source.items)
    ELSE IF source.kind = "Uint8Array"
    THEN LET decoded == JSON_parse(textEncoding_getString(source))
         IN IF decoded.threw = "SyntaxError" THEN [threw |-> "MslEncoderException", list |-> <<>>]
            ELSE IF decoded.value.kind = "Array" THEN PutAll(<<>>, decoded.value.items)
            ELSE [threw |-> "none", list |-> <<>>]
    ELSE IF instanceofMslArray(source)
    THEN IF "ja" \in DOMAIN source THEN PutAll(<<>>, source.ja)
         ELSE [threw |-> "MslEncoderException", list |-> <<>>]
    ELSE [threw |-> "none", list |-> <<>>]

JsonMslArray_init(source) ==
    IF source.kind = "Array" THEN PutAll(<<>>, source.items)
    ELSE IF source.kind = "Uint8Array"
    THEN LET decoded == JSON_parse(textEncoding_getString(source))
         IN IF decoded.threw = "SyntaxError" THEN [threw |-> "MslEncoderException", list |-> <<>>]
            ELSE IF ~instanceofArray(decoded.value)
            THEN [threw |-> "MslEncoderException", list |-> <<>>]
            ELSE PutAll(<<>>, decoded.value.items)
    \* ja = source.ja: a JsonMslArray has no such property, and ja.length of
    \* undefined is a TypeError, reported as an MslEncoderException.
    ELSE IF instanceofMslArray(source)
    THEN IF "ja" \in DOMAIN source THEN PutAll(<<>>, source.ja)
         ELSE [threw |-> "MslEncoderException", list |-> <<>>]
    ELSE [threw |-> "none", list |-> <<>>]

\* getBytes(index): binary as it is, a string Base64-decoded, anything else an
\* encoding error.
JsonMslArray_getBytes(list, index) ==
    LET value == MslArray_get(list, index)
    IN IF value.kind = "Uint8Array" THEN [threw |-> "none", value |-> value]
       ELSE IF value.kind = "string"
       THEN [threw |-> "none", value |-> Uint8Array(base64_decode(value.chars))]
       ELSE [threw |-> "MslEncoderException", value |-> null]

\* toJSON(): JSON.stringify(this.list)
JsonMslArray_toJSON(list) == <<"[">> \o StringifyItems(list) \o <<"]">>

\* What callers hand to the constructor and to put.
PutValues ==
    {JsNumber, JsString, null, Uint8Array(<<1, 2>>), JsArray(<<>>), JsArray(<<JsNumber>>),
     JsObject(<<>>, <<>>)}
ArraySources ==
    {JsArray(<<>>), JsArray(<<JsNumber, JsString>>), JsArray(<<JsArray(<<JsNumber>>)>>),
     JsArray(<<JsObject(<<>>, <<>>)>>)}
EncodedSources == {Encoded(t) : t \in SeqsUpTo(Tokens, MaxTokens)}
MslArraySources ==
    {[kind |-> "JsonMslArray", list |-> <<>>], [kind |-> "JsonMslArray", list |-> <<JsNumber>>],
     MslArrayWithJa(<<JsNumber, JsString>>)}

JsonInit ==
    /\ jaPc = "new"
    /\ jaList = <<>>
    /\ jaCall = NoCall

\* new JsonMslArray(encoder, source)
JaConstruct(source) ==
    /\ jaPc = "new"
    /\ LET out == JsonMslArray_init(source)
       IN /\ jaCall' = [op |-> "init", source |-> source, threw |-> out.threw]
          /\ jaList' = out.list
          /\ jaPc' = IF out.threw = "none" THEN "constructed" ELSE "failed"

JaPut(index, value) ==
    /\ jaPc = "constructed"
    /\ LET out == JsonMslArray_put(jaList, index, value)
       IN /\ jaCall' = [op |-> "put", index |-> index, value |-> value,
                        threw |-> out.threw, branch |-> out.branch]
          /\ jaList' = out.list
    /\ UNCHANGED jaPc

JaGetBytes(index) ==
    /\ jaPc = "constructed"
    /\ index < Len(jaList)
    /\ LET out == JsonMslArray_getBytes(jaList, index)
       IN jaCall' = [op |-> "getBytes", index |-> index, threw |-> out.threw, value |-> out.value]
    /\ UNCHANGED <<jaPc, jaList>>

JaToJSON ==
    /\ jaPc = "constructed"
    /\ jaCall' = [op |-> "toJSON", threw |-> "none", value |-> JsonMslArray_toJSON(jaList)]
    /\ UNCHANGED <<jaPc, jaList>>

JsonNext ==
    \/ jaPc = "new" /\ \E source \in ArraySources \cup EncodedSources \cup MslArraySources \cup {Absent} :
          JaConstruct(source) /\ UNCHANGED exceptJson
    \/ \E index \in -1..(MaxList - 1), value \in PutValues :
          (index = -1 => Len(jaList) < MaxList)
          /\ JaPut(index, value) /\ UNCHANGED exceptJson
    \/ \E index \in 0..(MaxList - 1) : JaGetBytes(index) /\ UNCHANGED exceptJson
    \/ JaToJSON /\ UNCHANGED exceptJson

(***************************************************************************)
(* MessageCapabilities objects (msg/MessageCapabilities.js) and the arrays *)
(* they share with their callers.  An array has an identity: its position  *)
(* in the heap.  init keeps the arrays it is handed, it does not copy them. *)
(***************************************************************************)
\* How many MessageCapabilities objects a caller constructs.
MaxObjects == 2
\* How many elements a caller adds to the arrays afterwards.
MaxPushes == 1

\* new Array: a new identity.  `by` tells who created the array.
NewArray(h, items, by) == Append(h, [items |-> items, by |-> by, pushed |-> 0])

\* if (!x) x = [];   an argument is the identity of an array, or 0 for null.
OrEmpty(h, ref) == IF ref = 0 THEN NewArray(h, <<>>, "init") ELSE h
RefOrNew(h, ref) == IF ref = 0 THEN Len(h) + 1 ELSE ref

\* init(compressionAlgos, languages, encoderFormats): missing lists become [],
\* compressionAlgos.sort() sorts that array in place, and the three arrays
\* become the values of the non-writable properties.
MessageCapabilities_init(h, compressionAlgos, languages, encoderFormats) ==
    LET h1 == OrEmpty(h, compressionAlgos)
        ca == RefOrNew(h, compressionAlgos)
        h2 == OrEmpty(h1, languages)
        la == RefOrNew(h1, languages)
        h3 == OrEmpty(h2, encoderFormats)
        ef == RefOrNew(h2, encoderFormats)
    IN [heap |-> [h3 EXCEPT ![ca].items = Sort(h3[ca].items)],
        this |-> [kind |-> "MessageCapabilities",
                  compressionAlgorithms |-> ca, languages |-> la, encoderFormats |-> ef]]

\* this.compressionAlgorithms, this.languages, this.encoderFormats: the elements.
Lists(h, o) ==
    [compressionAlgorithms |-> h[o.compressionAlgorithms].items,
     languages |-> h[o.languages].items,
     encoderFormats |-> h[o.encoderFormats].items]

\* Arrays$contains(superset, subset) and Arrays$containEachOther(a, b): each
\* array holds every element of the other.
Arrays_contains(superset, subset) == Elems(subset) \subseteq Elems(superset)
Arrays_containEachOther(a, b) == Arrays_contains(a, b) /\ Arrays_contains(b, a)

\* Array.prototype.join(separator)
RECURSIVE join(_, _)
join(s, separator) ==
    IF s = <<>> THEN ""
    ELSE IF Len(s) = 1 THEN s[1]
    ELSE s[1] \o separator \o join(Tail(s), separator)

\* equals(that) and uniqueKey() of the objects i and j of objs.
MessageCapabilities_equals(h, this, that) ==
    IF this = that THEN TRUE
    ELSE IF that.kind # "MessageCapabilities" THEN FALSE
    ELSE /\ Arrays_containEachOther(Lists(h, this).compressionAlgorithms, Lists(h, that).compressionAlgorithms)
         /\ Arrays_containEachOther(Lists(h, this).languages, Lists(h, that).languages)
         /\ Arrays_containEachOther(Lists(h, this).encoderFormats, Lists(h, that).encoderFormats)
MessageCapabilities_uniqueKey(h, this) ==
    join(Lists(h, this).compressionAlgorithms, ":") \o "|" \o join(Lists(h, this).languages, ":")
        \o "|" \o join(Lists(h, this).encoderFormats, ":")

\* The array literals callers pass to the constructor (null besides), and the
\* elements they push afterwards.
AlgoLiterals == {<<"GZIP", "LZW">>, <<"LZW", "GZIP">>}
LanguageLiterals == {<<"en", "fr">>, <<"fr", "en">>}
FormatLiterals == {<<"JSON", "BINARY">>, <<"BINARY", "JSON">>}
Literal(items) == [given |-> TRUE, items |-> items]
NoArray == [given |-> FALSE, items |-> <<>>]
OrNull(S) == {NoArray} \cup {Literal(s) : s \in S}
PushValues == {"GZIP", "de"}
\* The elements pushed so far.
RECURSIVE Pushed(_)
Pushed(h) == IF h = <<>> THEN 0 ELSE Head(h).pushed + Pushed(Tail(h))

\* The caller's arrays: a literal gets an identity, null stays null (0).
Passed(h, arg) == IF arg.given THEN NewArray(h, arg.items, "caller") ELSE h
PassedRef(h, arg) == IF arg.given THEN Len(h) + 1 ELSE 0

McInit ==
    /\ heap = <<>>
    /\ objs = <<>>
    /\ atInit = <<>>
    /\ mcCall = NoCall

\* var mc = new MessageCapabilities(c, l, f), the arguments arrays the caller
\* has made and keeps, or null.  With MessageCapabilities undefined the call
\* throws a ReferenceError and mc stays undefined.
McNew(c, l, f) ==
    /\ Len(objs) < MaxObjects
    /\ LET h1 == Passed(heap, c)
           h2 == Passed(h1, l)
           h3 == Passed(h2, f)
           out == MessageCapabilities_init(h3, PassedRef(heap, c), PassedRef(h1, l), PassedRef(h2, f))
       IN IF "MessageCapabilities" \in mcGlobals
          THEN /\ heap' = out.heap
               /\ objs' = Append(objs, out.this)
               /\ atInit' = Append(atInit, Lists(out.heap, out.this))
               /\ mcCall' = [op |-> "new", this |-> Len(objs) + 1, threw |-> "none"]
          ELSE /\ heap' = h3
               /\ objs' = Append(objs, undefined)
               /\ atInit' = Append(atInit, undefined)
               /\ mcCall' = [op |-> "new", this |-> Len(objs) + 1, threw |-> "ReferenceError"]

\* array.push(x) on an array the caller passed to the constructor
\* (by = "caller") or read back from a property (any array of an object).
McPush(ref, x) ==
    /\ ref \in 1..Len(heap)
    /\ Pushed(heap) < MaxPushes
    /\ heap' = [heap EXCEPT ![ref].items = Append(@, x), ![ref].pushed = @ + 1]
    /\ mcCall' = [op |-> "push", ref |-> ref, by |-> heap[ref].by]
    /\ UNCHANGED <<objs, atInit>>

\* mc.languages = [...]: the property is not writable, the assignment is
\* ignored, or throws a TypeError in strict code.  On an undefined mc the
\* assignment throws a TypeError in any code.
McAssign(i, strict) ==
    /\ i \in 1..Len(objs)
    /\ mcCall' = [op |-> "assign", this |-> i,
                  threw |-> IF objs[i] = undefined \/ strict THEN "TypeError" ELSE "none"]
    /\ UNCHANGED <<heap, objs, atInit>>

\* a.equals(b), a.uniqueKey() and b.uniqueKey() for two of the caller's
\* variables.  A method call on undefined throws a TypeError.
McEquals(i, j) ==
    /\ i \in 1..Len(objs)
    /\ j \in 1..Len(objs)
    /\ mcCall' =
          IF objs[i] = undefined \/ objs[j] = undefined
          THEN [op |-> "equals", this |-> i, that |-> j, threw |-> "TypeError",
                value |-> FALSE, thisKey |-> "", thatKey |-> ""]
          ELSE [op |-> "equals", this |-> i, that |-> j, threw |-> "none",
                value |-> MessageCapabilities_equals(heap, objs[i], objs[j]),
                thisKey |-> MessageCapabilities_uniqueKey(heap, objs[i]),
                thatKey |-> MessageCapabilities_uniqueKey(heap, objs[j])]
    /\ UNCHANGED <<heap, objs, atInit>>

McNext ==
    \/ \E c \in OrNull(AlgoLiterals), l \in OrNull(LanguageLiterals), f \in OrNull(FormatLiterals) :
          McNew(c, l, f) /\ UNCHANGED exceptMc
    \/ \E ref \in 1..(3 * MaxObjects), x \in PushValues : McPush(ref, x) /\ UNCHANGED exceptMc
    \/ \E i \in 1..MaxObjects, strict \in BOOLEAN : McAssign(i, strict) /\ UNCHANGED exceptMc
    \/ \E i \in 1..MaxObjects, j \in 1..MaxObjects : McEquals(i, j) /\ UNCHANGED exceptMc

(***************************************************************************)
(* CmdArguments (examples/java/mslcli/client/Client.java): the command     *)
(* line of the MSL CLI client.  A Java String is the sequence of its       *)
(* characters, wrapped so that it can be told from null.                   *)
(***************************************************************************)
\* Longest argument array handed to the constructor.
MaxArgs == 4
\* How many merge calls are made on one instance.
MaxMerges == 2

P_INT  == <<"-", "i", "n", "t">>
P_CFG  == <<"-", "c", "f", "g">>
P_URL  == <<"-", "u", "r", "l">>
P_EID  == <<"-", "e", "i", "d">>
P_UID  == <<"-", "u", "i", "d">>
P_KX   == <<"-", "k", "x">>
P_KXM  == <<"-", "k", "x", "m">>
P_ENC  == <<"-", "e", "n", "c">>
P_SIG  == <<"-", "s", "i", "g">>
P_NREP == <<"-", "n", "r", "e", "p">>
P_IF   == <<"-", "i", "f">>
P_OF   == <<"-", "o", "f">>
P_MSG  == <<"-", "m", "s", "g">>
P_PSK  == <<"-", "p", "s", "k">>
P_MST  == <<"-", "m", "s", "t">>
P_EAS  == <<"-", "e", "a", "s">>
P_V    == <<"-", "v">>

supportedArguments ==
    {P_INT, P_CFG, P_URL, P_EID, P_UID, P_KX, P_KXM, P_ENC, P_SIG, P_NREP, P_IF, P_OF,
     P_MSG, P_PSK, P_MST, P_EAS, P_V}

\* A String reference: null, or a string.
JavaNull == [isNull |-> TRUE, chars |-> <<>>]
Str(chars) == [isNull |-> FALSE, chars |-> chars]
\* s.startsWith("-"), s.length()
startsWithDash(s) == Len(s) > 0 /\ s[1] = "-"

\* HashMap<String,String>: a function from the keys present to their values.
EmptyMap == [k \in {} |-> JavaNull]
containsKey(m, k) == k \in DOMAIN m
MapPut(m, k, v) == [x \in DOMAIN m \cup {k} |-> IF x = k THEN v ELSE m[x]]
MapRemove(m, k) == [x \in DOMAIN m \ {k} |-> m[x]]

IllegalCmdArgument(m) == [threw |-> "IllegalCmdArgumentException", argMap |-> m, param |-> JavaNull]

\* for (String s : args) { ... }: the map and `param` after the loop, or what
\* the loop threw.
RECURSIVE ParseArgs(_, _, _)
ParseArgs(args, m, param) ==
    IF args = <<>> THEN [threw |-> "none", argMap |-> m, param |-> param]
    ELSE LET s == Head(args)
         IN IF s \in supportedArguments
            THEN IF containsKey(m, s) THEN IllegalCmdArgument(m)
                 ELSE IF ~param.isNull THEN IllegalCmdArgument(m)
                 ELSE ParseArgs(Tail(args), m, Str(s))
            ELSE IF startsWithDash(s) /\ Len(s) > 1 THEN IllegalCmdArgument(m)
            ELSE IF ~param.isNull
            THEN ParseArgs(Tail(args),
                           MapPut(m, param.chars, IF s = <<"-">> THEN JavaNull ELSE Str(s)),
                           JavaNull)
            ELSE IllegalCmdArgument(m)

\* A plausible slip: an option at the end, with no value, is not reported.
CmdArgumentsNoTrailingCheck(args) ==
    IF args.isNull THEN IllegalCmdArgument(EmptyMap)
    ELSE ParseArgs(args.items, EmptyMap, JavaNull)

\* new CmdArguments(args)
CmdArguments(args) ==
    IF args.isNull THEN IllegalCmdArgument(EmptyMap)
    ELSE LET out == ParseArgs(args.items, EmptyMap, JavaNull)
         IN IF out.threw = "none" /\ ~out.param.isNull THEN IllegalCmdArgument(out.argMap)
            ELSE out

\* for (entry : other.argMap.entrySet()): a value replaces, null removes.
MergeEntries(m, other) ==
    [k \in (DOMAIN m \cup {x \in DOMAIN other : ~other[x].isNull})
              \ {x \in DOMAIN other : other[x].isNull} |->
        IF k \in DOMAIN other THEN other[k] ELSE m[k]]

\* A plausible slip: the MSL store file is not protected.
mergeNoStoreCheck(m, other) ==
    IF other.isNull THEN [threw |-> "IllegalArgumentException", argMap |-> m]
    ELSE IF containsKey(other.argMap, P_CFG) \/ containsKey(other.argMap, P_INT)
            \/ containsKey(other.argMap, P_PSK)
    THEN [threw |-> "IllegalCmdArgumentException", argMap |-> m]
    ELSE [threw |-> "none", argMap |-> MergeEntries(m, other.argMap)]

\* merge(other), other another instance or null
CmdArguments_merge(m, other) ==
    IF other.isNull THEN [threw |-> "IllegalArgumentException", argMap |-> m]
    ELSE IF containsKey(other.argMap, P_CFG)
    THEN [threw |-> "IllegalCmdArgumentException", argMap |-> m]
    ELSE IF containsKey(other.argMap, P_INT)
    THEN [threw |-> "IllegalCmdArgumentException", argMap |-> m]
    ELSE IF containsKey(other.argMap, P_PSK)
    THEN [threw |-> "IllegalCmdArgumentException", argMap |-> m]
    ELSE IF containsKey(other.argMap, P_MST) /\ containsKey(m, P_MST)
    THEN [threw |-> "IllegalCmdArgumentException", argMap |-> m]
    ELSE [threw |-> "none", argMap |-> MergeEntries(m, other.argMap)]

\* The command lines: options (supported and not), values, "-" and "".
ArgTokens == {P_INT, P_CFG, P_PSK, P_MST, P_URL, <<"-", "x">>, <<"-">>, <<"a">>, <<>>}
NullArgs == [isNull |-> TRUE, items |-> <<>>]
Args(items) == [isNull |-> FALSE, items |-> items]
ArgArrays == {NullArgs} \cup {Args(s) : s \in SeqsUpTo(ArgTokens, MaxArgs)}
\* The instances handed to merge: constructed from one option and its value.
NullOther == [isNull |-> TRUE, argMap |-> EmptyMap]
Others ==
    {NullOther} \cup
    {[isNull |-> FALSE, argMap |-> CmdArguments(Args(s)).argMap] :
        s \in {t \in SeqsUpTo(ArgTokens, 2) : CmdArguments(Args(t)).threw = "none"}}

CmdInit ==
    /\ cmdPc = "new"
    /\ argMap = EmptyMap
    /\ cmdAtInit = EmptyMap
    /\ cmdMerges = 0
    /\ cmdCall = NoCall

CmdNew(args) ==
    /\ cmdPc = "new"
    /\ LET out == CmdArguments(args)
       IN /\ cmdCall' = [op |-> "new", args |-> args, threw |-> out.threw]
          /\ argMap' = out.argMap
          /\ cmdAtInit' = out.argMap
          /\ cmdPc' = IF out.threw = "none" THEN "constructed" ELSE "failed"
    /\ UNCHANGED cmdMerges

CmdMerge(other) ==
    /\ cmdPc = "constructed"
    /\ cmdMerges < MaxMerges
    /\ LET out == CmdArguments_merge(argMap, other)
       IN /\ cmdCall' = [op |-> "merge", carried |-> DOMAIN other.argMap, threw |-> out.threw]
          /\ argMap' = out.argMap
    /\ cmdMerges' = cmdMerges + 1
    /\ UNCHANGED <<cmdPc, cmdAtInit>>

\* this.merge(this): the loop runs over the map it changes.  Putting a value
\* under its own key changes nothing; the first null-valued entry the iteration
\* meets is removed, after which the iterator's next step, if there is one,
\* throws ConcurrentModificationException.  Which entry the iteration meets
\* first, and whether it is the last one, is up to the hash order.
CmdMergeSelf(k, last) ==
    /\ cmdPc = "constructed"
    /\ cmdMerges < MaxMerges
    /\ LET checks == CmdArguments_merge(argMap, [isNull |-> FALSE, argMap |-> argMap])
           nulls == {x \in DOMAIN argMap : argMap[x].isNull}
       IN IF checks.threw # "none" \/ nulls = {}
          THEN /\ cmdCall' = [op |-> "merge", carried |-> DOMAIN argMap, threw |-> checks.threw]
               /\ UNCHANGED argMap
          ELSE /\ k \in nulls
               /\ Cardinality(DOMAIN argMap) = 1 => last
               /\ cmdCall' = [op |-> "merge", carried |-> DOMAIN argMap,
                              threw |-> IF last THEN "none" ELSE "ConcurrentModificationException"]
               /\ argMap' = MapRemove(argMap, k)
    /\ cmdMerges' = cmdMerges + 1
    /\ UNCHANGED <<cmdPc, cmdAtInit>>

CmdNext ==
    \/ cmdPc = "new" /\ \E args \in ArgArrays : CmdNew(args) /\ UNCHANGED exceptCmd
    \/ cmdPc = "constructed" /\ \E other \in Others : CmdMerge(other) /\ UNCHANGED exceptCmd
    \/ cmdPc = "constructed" /\ \E k \in supportedArguments, last \in BOOLEAN :
          CmdMergeSelf(k, last) /\ UNCHANGED exceptCmd

(***************************************************************************)
(* The specifications.                                                     *)
(***************************************************************************)
\* The registry: lookups and constructor calls after the module is loaded.
InitKx == KxInit /\ LoadInit /\ CapsIdle /\ EccInit /\ JsonInit /\ McInit /\ CmdInit
SpecKx == InitKx /\ [][KxNext]_vars
\* The capability functions, each applied to every input of the bounded sets.
InitCaps == KxInit /\ LoadInit /\ CapsInit /\ EccInit /\ JsonInit /\ McInit /\ CmdInit
SpecCaps == InitCaps /\ [][CapsNext]_vars
\* One ECC crypto context and the invocations a caller makes on it, in turn.
InitEcc == KxInit /\ LoadInit /\ CapsIdle /\ EccInit /\ JsonInit /\ McInit /\ CmdInit
SpecEcc == InitEcc /\ [][EccNext]_vars
\* One JsonMslArray: its construction and the calls made on it.
InitJson == KxInit /\ LoadInit /\ CapsIdle /\ EccInit /\ JsonInit /\ McInit /\ CmdInit
SpecJson == InitJson /\ [][JsonNext]_vars
\* MessageCapabilities objects and what their callers do with the arrays.
InitMc == KxInit /\ LoadInit /\ CapsIdle /\ EccInit /\ JsonInit /\ McInit /\ CmdInit
SpecMc == InitMc /\ [][McNext]_vars
\* One CmdArguments instance: its construction and the merges into it.
InitCmd == KxInit /\ LoadInit /\ CapsIdle /\ EccInit /\ JsonInit /\ McInit /\ CmdInit
SpecCmd == InitCmd /\ [][CmdNext]_vars

(***************************************************************************)
(* Properties of MessageCapabilities$intersection and $parse (SpecCaps).   *)
(***************************************************************************)
Count(s, e) == Cardinality({i \in 1..Len(s) : s[i] = e})
Max(m, n) == IF m > n THEN m ELSE n

\* r holds exactly the elements a and b share, none more often than a or b has it.
IsIntersectionOf(r, a, b) ==
    /\ Elems(r) = Elems(a) \cap Elems(b)
    /\ \A e \in Elems(r) : Count(r, e) <= Max(Count(a, e), Count(b, e))

\* The elements of a that also appear in b, in a's order and multiplicity.
SubSeqOfFirst(a, b) == SelectSeq(a, LAMBDA e : e \in Elems(b))

IntersectionRan == call.op = "intersection" /\ call.out # Pending
BothGiven == call.mc1 # null /\ call.mc2 # null
ParseRan == call.op = "parse" /\ call.out # Pending

\* C1: the intersection of two non-null capability sets is a capability set
\* whose three lists each hold exactly the elements both arguments' lists
\* hold, with no duplicates introduced.
C1_IntersectionOfBoth ==
    (IntersectionRan /\ BothGiven) =>
        /\ call.out.threw = "none"
        /\ call.out.value # null
        /\ IsIntersectionOf(call.out.value.compressionAlgorithms,
                            call.mc1.compressionAlgorithms, call.mc2.compressionAlgorithms)
        /\ IsIntersectionOf(call.out.value.languages, call.mc1.languages, call.mc2.languages)
        /\ IsIntersectionOf(call.out.value.encoderFormats,
                            call.mc1.encoderFormats, call.mc2.encoderFormats)

\* C2: the intersection returns null when either argument is null: it raises
\* no error and reads neither argument's lists.
C2_NullYieldsNull ==
    (IntersectionRan /\ ~BothGiven) =>
        /\ call.out.threw = "none"
        /\ call.out.value = null
        /\ call.out.read = {}

\* C3: every list the intersection computes is the sub-sequence of the first
\* argument's list made of the elements that also appear in the second
\* argument's list, in the first argument's order and multiplicity.
C3_SubSequenceOfFirst ==
    (IntersectionRan /\ BothGiven) =>
        /\ call.out.compressionAlgos =
              SubSeqOfFirst(call.mc1.compressionAlgorithms, call.mc2.compressionAlgorithms)
        /\ call.out.languages = SubSeqOfFirst(call.mc1.languages, call.mc2.languages)

\* C4: parse never fails on unrecognized advisory values: the result's
\* compression algorithms and encoder formats are exactly the recognized
\* entries of the object's lists, and a missing list gives an empty list.
C4_ParseKeepsRecognized ==
    ParseRan =>
        /\ call.out.threw = "none"
        /\ call.out.value.compressionAlgorithms =
              Sort(SelectSeq(call.mo.compressionalgos.items,
                             LAMBDA a : a \in CompressionAlgorithmNames))
        /\ call.out.value.encoderFormats =
              SelectSeq(call.mo.encoderformats.items, LAMBDA f : f \in EncoderFormatNames)

(***************************************************************************)
(* Properties of the key exchange scheme registry (SpecKx).                *)
(***************************************************************************)
\* C5: with the registry as initialization left it, getScheme of a name that
\* is none of the five registered names returns null, names every plain
\* object inherits ("constructor", "toString") included.
C5_UnknownNameIsNull ==
    (nextId = 6 /\ lookup.name \in Names \ RegisteredNames) => lookup.value = null

\* C6: the registry is read-only after initialization: whatever callers do,
\* getScheme of a registered name returns the original singleton of that name
\* and getScheme of any other name returns null (for the names Object.prototype
\* has, see C5).
C6_RegistryReadOnly ==
    /\ \A n \in RegisteredNames : KeyExchangeScheme_getScheme(schemes, n) = Static(n)
    /\ \A n \in (Names \ RegisteredNames) \ ObjectPrototypeNames :
          KeyExchangeScheme_getScheme(schemes, n) = null

(***************************************************************************)
(* Properties of the ECC crypto context (SpecEcc).                         *)
(***************************************************************************)
NotSupported(op) ==
    CASE op = "wrap"   -> "WRAP_NOT_SUPPORTED"
      [] op = "unwrap" -> "UNWRAP_NOT_SUPPORTED"
      [] op = "verify" -> "VERIFY_NOT_SUPPORTED"

\* C7: wrap, unwrap and verify always fail, each with its own error
\* (WRAP_NOT_SUPPORTED, UNWRAP_NOT_SUPPORTED, VERIFY_NOT_SUPPORTED) delivered to
\* the error continuation; the result continuation is never invoked.
C7_NotSupported ==
    (eccPc = "done" /\ eccOp \in {"wrap", "unwrap", "verify"}) =>
        /\ cbResult = <<>>
        /\ cbError = <<MslCryptoException(NotSupported(eccOp))>>
        /\ \A other \in {"wrap", "unwrap", "verify"} \ {eccOp} :
              cbError[1].error # NotSupported(other)

\* C7's case: verify was invoked and failed with VERIFY_NOT_SUPPORTED.
C7_Witness ==
    /\ eccPc = "done" /\ eccOp = "verify" /\ eccData.bytes # <<>>
    /\ cbError = <<MslCryptoException("VERIFY_NOT_SUPPORTED")>>

\* C8: every invocation of the six operations calls exactly one of the two
\* continuations, exactly once: never more than one call while it runs, and
\* exactly one when it has completed, on every path of sign.
C8_ExactlyOneContinuation ==
    /\ Len(cbResult) + Len(cbError) <= 1
    /\ eccPc = "done" => Len(cbResult) + Len(cbError) = 1
    /\ eccPc \in {"signing", "creating", "encoding"} => Len(cbResult) + Len(cbError) = 0

\* C8's case: sign completed on the path where encoding the envelope failed.
C8_Witness ==
    /\ eccOp = "sign" /\ eccPc = "done" /\ eccPath = "encodeFailed"
    /\ cbResult = <<>> /\ Len(cbError) = 1

\* C9: when the signing primitive resolves with signature bytes s, sign
\* delivers the encoding, in the requested format, of a signature envelope
\* holding s, and parsing the delivered bytes in that format yields s.
C9_SignEnvelopeRoundTrip ==
    eccPath = "signed" =>
        /\ cbResult = <<MslSignatureEnvelope_getBytes(
                          MslSignatureEnvelope_create(Uint8Array(eccSig)), eccFormat)>>
        /\ MslSignatureEnvelope_parse(cbResult[1], eccFormat).kind = "MslSignatureEnvelope"
        /\ MslSignatureEnvelope_parse(cbResult[1], eccFormat).signature = eccSig

\* C9's case: a two-byte signature was delivered as padded Base64 text.
C9_Witness ==
    /\ eccPath = "signed" /\ eccFormat = "JSON" /\ eccSig = <<255, 0>>
    /\ Len(cbResult) = 1
    /\ cbResult[1].signature.chars = <<63, 48, 0, 64>>

\* C10: when the signing primitive rejects, sign reports an MslCryptoException
\* with SIGNATURE_ERROR to the error continuation and delivers no result.
C10_RejectReported ==
    eccPath = "rejected" =>
        /\ cbError = <<MslCryptoException("SIGNATURE_ERROR")>>
        /\ cbResult = <<>>

\* C10's case: the primitive rejected and the invocation completed.
C10_Witness ==
    /\ eccOp = "sign" /\ eccPc = "done" /\ eccPath = "rejected"
    /\ Len(cbError) = 1


\* C11: encrypt and decrypt are pass-through identities: the value delivered
\* to the result continuation is exactly the data given, no error is ever
\* reported, and so decrypt applied to what encrypt delivers gives the data.
C11_PassThrough ==
    /\ (eccPc = "done" /\ eccOp \in {"encrypt", "decrypt"}) =>
          /\ cbResult = <<eccData>>
          /\ cbError = <<>>
    /\ \A data \in DataValues :
          /\ AsyncExecutor(encrypt(data)).error = <<>>
          /\ AsyncExecutor(decrypt(AsyncExecutor(encrypt(data)).result[1])) =
                [result |-> <<data>>, error |-> <<>>]

\* C11's case: decrypt was invoked on two bytes and delivered them.
C11_Witness ==
    /\ eccPc = "done" /\ eccOp = "decrypt"
    /\ eccData = Uint8Array(<<1, 2>>)
    /\ cbResult = <<Uint8Array(<<1, 2>>)>>


(***************************************************************************)
(* Properties of JsonMslArray (SpecJson).                                  *)
(***************************************************************************)
\* Where put(index, ...) left its value: a put at -1 appends.
PutIndex == IF jaCall.index = -1 THEN Len(jaList) - 1 ELSE jaCall.index

\* The value tree a list of stored elements stands for.
RECURSIVE Unwrap(_)
Unwrap(list) ==
    [i \in 1..Len(list) |->
        IF list[i].kind = "JsonMslArray" THEN JsArray(Unwrap(list[i].list))
        ELSE IF list[i].kind = "JsonMslObject" THEN list[i].source
        ELSE list[i]]

\* The text is a JSON array.
WellFormedArray(text) ==
    JSON_parse(text).threw = "none" /\ JSON_parse(text).value.kind = "Array"
InitFromEncoded == jaCall.op = "init" /\ jaCall.source.kind = "Uint8Array"

\* C12: getBytes returns a binary value as it is and a text value Base64
\* decoded, and fails with an encoding error for any other value; so after
\* put(index, b) of a byte sequence b, getBytes(index) returns b.
C12_PutThenGetBytes ==
    /\ (jaCall.op = "put" /\ jaCall.value.kind = "Uint8Array") =>
          /\ jaCall.threw = "none"
          /\ JsonMslArray_getBytes(jaList, PutIndex) = [threw |-> "none", value |-> jaCall.value]
    /\ jaCall.op = "getBytes" =>
          LET stored == MslArray_get(jaList, jaCall.index)
          IN CASE stored.kind = "Uint8Array" -> jaCall.threw = "none" /\ jaCall.value = stored
               [] stored.kind = "string" ->
                    jaCall.threw = "none" /\ jaCall.value = Uint8Array(<<1, 2>>)
               [] OTHER -> jaCall.threw = "MslEncoderException"

\* C13: constructing a JsonMslArray from the JSON encoding of an array V, nested
\* arrays and objects included, succeeds and yields an array equal to V at
\* every level, which encodes to the same JSON again.
C13_JsonRoundTrip ==
    (InitFromEncoded /\ WellFormedArray(jaCall.source.text)) =>
        /\ jaCall.threw = "none"
        /\ Unwrap(jaList) = JSON_parse(jaCall.source.text).value.items
        /\ JsonMslArray_toJSON(jaList) = jaCall.source.text

\* C14: constructing a JsonMslArray from bytes that are no well-formed JSON
\* array (invalid or truncated JSON, or a top-level object or scalar) fails with
\* an MslEncoderException and yields no array.
C14_MalformedRejected ==
    (InitFromEncoded /\ ~WellFormedArray(jaCall.source.text)) =>
        /\ jaCall.threw = "MslEncoderException"
        /\ jaPc = "failed"
        /\ jaList = <<>>

\* C14's case: a top-level JSON object was handed in and rejected.
C14_Witness ==
    /\ jaPc = "failed"
    /\ jaCall.op = "init"
    /\ jaCall.source = Encoded(<<"{", "}">>)
    /\ jaCall.threw = "MslEncoderException"

\* C17: put stores a JSON array as a JsonMslArray, a JSON object as a
\* JsonMslObject and every other value as it is; an array is never converted
\* to an MslObject.
C17_PutConversion ==
    (jaCall.op = "put" /\ jaCall.value.kind # "Uint8Array") =>
        /\ jaCall.threw = "none"
        /\ LET stored == MslArray_get(jaList, PutIndex)
           IN CASE jaCall.value.kind = "Array" ->
                     stored.kind = "JsonMslArray" /\ jaCall.branch # "JsonMslObject"
                [] jaCall.value.kind = "Object" -> stored.kind = "JsonMslObject"
                [] OTHER -> stored = jaCall.value


(***************************************************************************)
(* Properties of MessageCapabilities objects (SpecMc).                     *)
(***************************************************************************)
InOrder(s) == \A i \in 1..Len(s), j \in 1..Len(s) : i < j => rank(s[i]) <= rank(s[j])
SameElements(a, b) ==
    /\ Len(a) = Len(b)
    /\ \A x \in Elems(a) \cup Elems(b) : Count(a, x) = Count(b, x)

\* C15: a MessageCapabilities can be constructed, and after init returned its
\* three lists hold the element sequences they held when init returned,
\* whatever the caller does with the arrays it passed or reads back.
C15_ImmutableAfterInit ==
    \A i \in 1..Len(objs) :
        /\ objs[i] # undefined
        /\ Lists(heap, objs[i]) = atInit[i]

\* C16: the constructor builds a MessageCapabilities whose
\* compressionAlgorithms are in sorted order, so two objects holding the same
\* algorithms hold the same sequence.
C16_AlgorithmsSorted ==
    /\ \A i \in 1..Len(objs) :
          objs[i] # undefined /\ InOrder(Lists(heap, objs[i]).compressionAlgorithms)
    /\ \A i \in 1..Len(objs), j \in 1..Len(objs) :
          SameElements(Lists(heap, objs[i]).compressionAlgorithms,
                       Lists(heap, objs[j]).compressionAlgorithms)
          => Lists(heap, objs[i]).compressionAlgorithms = Lists(heap, objs[j]).compressionAlgorithms

\* C20: equals and uniqueKey of two capability sets answer, and sets that
\* are equal have the same unique key.
C20_EqualsSameKey ==
    mcCall.op = "equals" =>
        /\ mcCall.threw = "none"
        /\ mcCall.value => mcCall.thisKey = mcCall.thatKey


(***************************************************************************)
(* Properties of CmdArguments (SpecCmd).                                   *)
(***************************************************************************)
\* The array is a sequence of (option, value) pairs: supported options, each
\* at most once, and values that are no options of any kind.
OptionAt(args, i) == i % 2 = 1
IsValue(s) == s \notin supportedArguments /\ ~(Len(s) > 1 /\ Head(s) = "-")
IsPairs(args) ==
    /\ ~args.isNull
    /\ Len(args.items) % 2 = 0
    /\ \A i \in 1..Len(args.items) :
          IF OptionAt(args.items, i) THEN args.items[i] \in supportedArguments
          ELSE IsValue(args.items[i])
    /\ \A i \in 1..Len(args.items), j \in 1..Len(args.items) :
          (OptionAt(args.items, i) /\ OptionAt(args.items, j) /\ i # j)
          => args.items[i] # args.items[j]
\* One entry per pair, "-" as null.
PairsMap(items) ==
    [k \in {items[i] : i \in {j \in 1..Len(items) : OptionAt(items, j)}} |->
        LET i == CHOOSE j \in 1..Len(items) : OptionAt(items, j) /\ items[j] = k
        IN IF items[i + 1] = <<"-">> THEN JavaNull ELSE Str(items[i + 1])]

\* C18: construction succeeds exactly for a sequence of (option, value) pairs
\* of distinct supported options whose values are no options; every other
\* array, null included, is rejected with IllegalCmdArgumentException.  On
\* success the map has one entry per pair, the value "-" stored as null.
C18_ConstructorAcceptsPairs ==
    cmdCall.op = "new" =>
        /\ (cmdCall.threw = "none") <=> IsPairs(cmdCall.args)
        /\ cmdCall.threw \in {"none", "IllegalCmdArgumentException"}
        /\ (cmdCall.threw = "none") <=> (cmdPc = "constructed")
        /\ cmdCall.threw = "none" => argMap = PairsMap(cmdCall.args.items)

\* C18's case: two pairs were accepted, one of them with the value "-".
C18_Witness ==
    /\ cmdPc = "constructed"
    /\ cmdCall.op = "new"
    /\ cmdCall.args = Args(<<P_CFG, <<"a">>, P_MST, <<"-">>>>)
    /\ argMap[P_CFG] = Str(<<"a">>)
    /\ argMap[P_MST] = JavaNull
    /\ DOMAIN argMap = {P_CFG, P_MST}

\* The entry of a map under a key: whether there is one, and its value.
Entry(m, k) ==
    IF k \in DOMAIN m THEN [present |-> TRUE, value |-> m[k]]
    ELSE [present |-> FALSE, value |-> JavaNull]
Fixed == {P_CFG, P_INT, P_PSK}

\* C19: over any sequence of merges the entries for -cfg, -int and -psk stay
\* what construction set, an entry for -mst, once present, is never changed or
\* removed, and a merge whose argument carries -cfg, -int or -psk, or -mst when
\* -mst is present, is rejected with IllegalCmdArgumentException and changes
\* no parameter.
C19_MergeKeepsFixedEntries ==
    /\ [](cmdPc = "constructed" => \A k \in Fixed : Entry(argMap, k) = Entry(cmdAtInit, k))
    /\ [][cmdPc = "constructed" =>
            /\ containsKey(argMap, P_MST) => Entry(argMap', P_MST) = Entry(argMap, P_MST)
            /\ (cmdCall'.op = "merge" /\ cmdMerges' = cmdMerges + 1
                /\ (cmdCall'.carried \cap Fixed # {}
                    \/ (P_MST \in cmdCall'.carried /\ containsKey(argMap, P_MST))))
               => (cmdCall'.threw = "IllegalCmdArgumentException" /\ argMap' = argMap)]_vars

\* C19's case: -mst was present and a merge carrying -mst was rejected, after
\* an earlier merge went through.
C19_Witness ==
    /\ cmdPc = "constructed"
    /\ cmdMerges = 2
    /\ cmdCall.op = "merge"
    /\ cmdCall.carried = {P_MST}
    /\ cmdCall.threw = "IllegalCmdArgumentException"
    /\ containsKey(argMap, P_MST)
    /\ containsKey(argMap, P_URL)
    /\ ~containsKey(cmdAtInit, P_URL)

====
